---- MODULE Spec2Model ----
(***************************************************************************)
(* Model of Core/Loaders.cpp: file-accessor construction, file type        *)
(* identification (Identify_File), load dispatch (LoadFile), the           *)
(* directory/file path helpers and disc hot-swap (UmdReplace).             *)
(*                                                                         *)
(* A path is a sequence of components; a non-empty path starts with its    *)
(* root component, "/" for a local path and "http://h" for a network one.  *)
(* A message is a sequence of pieces (literal texts and paths), so that    *)
(* concatenation is \o and "empty" is <<>>.                                *)
(***************************************************************************)
EXTENDS Integers, Sequences, FiniteSets, TLC

\* ------------------------------------------------------------------ bounds

\* Largest number of raw 2352-byte sectors a modelled file holds.
MaxSectors == 1
\* Largest number of accessor objects ever allocated in one behaviour.
MaxLoaders == 4

\* --------------------------------------------------------- program constants

SectorSize == 2352
SyncLen == 12
TagLen == 8
MagicLen == 4
PsarFieldEnd == 40

\* ------------------------------------------------------------------- paths

NameInfo(name) ==
    CASE name = "EBOOT.PBP" -> [ext |-> ".pbp",   len |-> 9]
      [] name = "BOOT.BIN"  -> [ext |-> ".bin",   len |-> 8]
      [] name = "a.iso"     -> [ext |-> ".iso",   len |-> 5]
      [] name = "a.cso"     -> [ext |-> ".cso",   len |-> 5]
      [] name = "a.ppst"    -> [ext |-> ".ppst",  len |-> 6]
      [] name = "a.ppdmp"   -> [ext |-> ".ppdmp", len |-> 7]
      [] name = "a.pbp"     -> [ext |-> ".pbp",   len |-> 5]
      [] name = "a.bin"     -> [ext |-> ".bin",   len |-> 5]
      [] name = "a.zip"     -> [ext |-> ".zip",   len |-> 5]
      [] name = "a.rar"     -> [ext |-> ".rar",   len |-> 5]
      [] name = "a.r00"     -> [ext |-> ".r00",   len |-> 5]
      [] name = "a.r01"     -> [ext |-> ".r01",   len |-> 5]
      [] name = "a.7z"      -> [ext |-> ".7z",    len |-> 4]
      [] name = "a.elf"     -> [ext |-> ".elf",   len |-> 5]
      [] name = "a.prx"     -> [ext |-> ".prx",   len |-> 5]
      [] name = "a.plf"     -> [ext |-> ".plf",   len |-> 5]
      [] name = "a.txt"     -> [ext |-> ".txt",   len |-> 5]
      [] name = "PSP_GAME"  -> [ext |-> "",       len |-> 8]
      [] name = "PARAM.SFO" -> [ext |-> ".sfo",   len |-> 9]
      [] name = "PSP"       -> [ext |-> "",       len |-> 3]
      [] name = "GAME"      -> [ext |-> "",       len |-> 4]
      [] name = "ms"        -> [ext |-> "",       len |-> 2]
      [] name = "g"         -> [ext |-> "",       len |-> 1]
      [] OTHER              -> [ext |-> "",       len |-> 0]

EmptyPath == <<>>
RootPath == <<"/">>

\* Path::size(): the length of the path string ("/" + components joined by "/").
RECURSIVE PathSize(_)
PathSize(p) ==
    IF Len(p) = 0 THEN 0
    ELSE IF Len(p) = 1 THEN 1
    ELSE IF Len(p) = 2 THEN 1 + NameInfo(p[2]).len
    ELSE PathSize(SubSeq(p, 1, Len(p) - 1)) + 1 + NameInfo(p[Len(p)]).len

\* Path::GetFilename(): the last component.
GetFilename(p) == IF Len(p) <= 1 THEN "" ELSE p[Len(p)]

\* Path::GetFileExtension(): the lower-cased extension of the last component.
GetFileExtension(p) == NameInfo(GetFilename(p)).ext

\* Path::operator/ : the child of p named name.
Child(p, name) == Append(p, name)

\* Path::NavigateUp(): the parent; the root is its own parent.
NavigateUp(p) == IF Len(p) <= 1 THEN p ELSE SubSeq(p, 1, Len(p) - 1)

\* Whether the path string contains the literal "PSP/GAME/".
ContainsPspGame(p) ==
    \E i \in 1..Len(p) : i + 1 < Len(p) /\ p[i] = "PSP" /\ p[i + 1] = "GAME"

\* Path::FilePathContains("PSP/GAME/").
FilePathContains(p) == ContainsPspGame(p)

\* strstr(filename, "BOOT.BIN") != NULL.
FilenameContainsBootBin(p) == GetFilename(p) = "BOOT.BIN"

\* ----------------------------------------------------------- file contents

File(size, head, psar, valid, elf, category) ==
    [size |-> size, head |-> head, psar |-> psar, pbpValid |-> valid,
     pbpElf |-> elf, category |-> category]

\* Leading bytes a file of at least 4 bytes can start with.
Heads4 == {"ELF", "PBP", "PK34", "PK56", "PK78", "Rar!", "other"}

ShortSizes == {0, 2}
SectorSizes == {SectorSize * k : k \in 1..MaxSectors}
LongSizes == SectorSizes \cup {PsarFieldEnd, SectorSize + 1}

\* A regular file with no container structure.
PlainFile(size, head) == File(size, head, "other", FALSE, FALSE, "none")

\* The sizes at which the container fields of a PBP are all readable.
ContainerSizes == SectorSizes \cup {PsarFieldEnd}

\* The files that start with the PBP magic and are long enough to hold the
\* header's offset fields.
Containers ==
    {File(s, "PBP", ps, v, e, c) :
        s \in ContainerSizes, ps \in {"NPUM", "PSIS", "other"}, v \in BOOLEAN,
        e \in BOOLEAN, c \in {"none", "ME", "MG"}}

Contents ==
    {PlainFile(s, "short") : s \in ShortSizes}
    \cup {PlainFile(s, h) : s \in {MagicLen, TagLen, SyncLen} \cup LongSizes, h \in Heads4}
    \cup {PlainFile(s, "PPSSPPGE") : s \in {TagLen, SyncLen} \cup LongSizes}
    \cup {PlainFile(s, "SYNC") : s \in {SyncLen} \cup LongSizes}
    \cup Containers

\* What an EBOOT.PBP inside an offered directory may hold.
EbootContents ==
    {PlainFile(s, "short") : s \in ShortSizes}
    \cup {PlainFile(MagicLen, h) : h \in Heads4}
    \cup Containers

\* What a directory reads as: no bytes.
NoBytes == PlainFile(0, "short")

\* ------------------------------------------------------------- file system

LeafNames ==
    {"EBOOT.PBP", "BOOT.BIN", "a.iso", "a.cso", "a.ppst", "a.ppdmp", "a.pbp",
     "a.bin", "a.zip", "a.rar", "a.r00", "a.r01", "a.7z", "a.elf", "a.prx",
     "a.plf", "a.txt"}

Dirs == {RootPath, <<"/", "ms", "PSP", "GAME">>, <<"/", "ms", "PSP", "GAME", "g">>}

\* The paths at which a regular file (or nothing) is offered.
Paths == {Child(d, n) : d \in Dirs, n \in LeafNames}

\* The paths at which a directory is offered.
DirLeafNames == {"EBOOT.PBP", "a.iso", "a.cso", "a.ppst", "a.ppdmp", "a.bin"}

DirPaths ==
    {<<"/", "g">>, <<"/", "ms", "PSP", "GAME">>, <<"/", "ms", "PSP", "GAME", "g">>}
    \cup {Child(d, n) : d \in {RootPath, <<"/", "ms", "PSP", "GAME", "g">>},
                         n \in DirLeafNames}

World(path, exists, isDir, file, hasEboot, hasPspGame, hasParamSfo, eboot) ==
    [path |-> path, exists |-> exists, isDir |-> isDir, file |-> file,
     hasEboot |-> hasEboot, hasPspGame |-> hasPspGame,
     hasParamSfo |-> hasParamSfo, eboot |-> eboot]

\* The artifact offered to the program: nothing at the path, a regular file,
\* or a directory with any of the three probed children.
Worlds ==
    {World(EmptyPath, FALSE, FALSE, NoBytes, FALSE, FALSE, FALSE, NoBytes)}
    \cup {World(p, FALSE, FALSE, NoBytes, FALSE, FALSE, FALSE, NoBytes) :
            p \in Paths \cup DirPaths}
    \cup {World(p, TRUE, FALSE, f, FALSE, FALSE, FALSE, NoBytes) :
            p \in Paths, f \in Contents}
    \cup {World(p, TRUE, TRUE, NoBytes, FALSE, g, s, NoBytes) :
            p \in DirPaths, g \in BOOLEAN, s \in BOOLEAN}
    \cup {World(p, TRUE, TRUE, NoBytes, TRUE, g, s, e) :
            p \in DirPaths, g \in BOOLEAN, s \in BOOLEAN, e \in EbootContents}

Entry(exists, isDir, file) == [exists |-> exists, isDir |-> isDir, file |-> file]

\* What the file system holds at path q.
Stat(w, q) ==
    IF q = EmptyPath THEN Entry(FALSE, FALSE, NoBytes)
    ELSE IF q = w.path THEN Entry(w.exists, w.isDir, w.file)
    ELSE IF w.exists /\ w.isDir /\ w.hasEboot /\ q = Child(w.path, "EBOOT.PBP")
         THEN Entry(TRUE, FALSE, w.eboot)
    ELSE IF w.exists /\ w.isDir /\ w.hasPspGame /\ q = Child(w.path, "PSP_GAME")
         THEN Entry(TRUE, TRUE, NoBytes)
    ELSE IF w.exists /\ w.isDir /\ w.hasParamSfo /\ q = Child(w.path, "PARAM.SFO")
         THEN Entry(TRUE, FALSE, NoBytes)
    ELSE Entry(FALSE, FALSE, NoBytes)

\* File::Exists(path).
FileExists(w, q) == Stat(w, q).exists

\* ------------------------------------------------------- Identify_File

Res(type, err) == [type |-> type, err |-> err]

\* A literal piece of a message (a path is a piece as it stands).
T(text) == <<text>>

\* FileLoader::ReadAt(0, n, buf): the number of bytes a read of n bytes at
\* offset 0 delivers.
ReadAt0(f, n) == IF f.size >= n THEN n ELSE f.size

\* The ".iso" rule without the test of the size against the raw sector size.
IdentifyIsoAnySize(f) ==
    LET matches == IF ReadAt0(f, SyncLen) = SyncLen
                   THEN {f.head = "SYNC"}
                   ELSE BOOLEAN
    IN  {IF m THEN Res("ISO_MODE2", <<T("ISO in Mode 2: Not a PSP game")>>)
              ELSE Res("PSP_ISO", <<>>) : m \in matches}

\* The ".iso" rule.  A file shorter than 12 bytes leaves part of sync[]
\* uninitialised, and the comparison may then come out either way.
IdentifyIso(f) ==
    IF f.size % SectorSize = 0
    THEN LET matches == IF ReadAt0(f, SyncLen) = SyncLen
                        THEN {f.head = "SYNC"}
                        ELSE BOOLEAN
         IN  {IF m THEN Res("ISO_MODE2", <<T("ISO in Mode 2: Not a PSP game")>>)
                   ELSE Res("PSP_ISO", <<>>) : m \in matches}
    ELSE {Res("PSP_ISO", <<>>)}

\* The ".ppdmp" rule: data[8] starts zeroed, so a short read never matches.
IsGeDump(f) == ReadAt0(f, TagLen) = TagLen /\ f.head = "PPSSPPGE"

\* The directory rule with the disc-directory probe made first.
IdentifyDirectoryDiscFirst(w, filename) ==
    IF PathSize(filename) > 4
    THEN IF FileExists(w, Child(filename, "PSP_GAME")) THEN "PSP_DISC_DIRECTORY"
         ELSE IF FileExists(w, Child(filename, "EBOOT.PBP")) THEN "PSP_PBP_DIRECTORY"
         ELSE IF FileExists(w, Child(filename, "PARAM.SFO")) THEN "PSP_SAVEDATA_DIRECTORY"
         ELSE "NORMAL_DIRECTORY"
    ELSE "NORMAL_DIRECTORY"

\* The directory rule.
IdentifyDirectory(w, filename) ==
    IF PathSize(filename) > 4
    THEN IF FileExists(w, Child(filename, "EBOOT.PBP")) THEN "PSP_PBP_DIRECTORY"
         ELSE IF FileExists(w, Child(filename, "PSP_GAME")) THEN "PSP_DISC_DIRECTORY"
         ELSE IF FileExists(w, Child(filename, "PARAM.SFO")) THEN "PSP_SAVEDATA_DIRECTORY"
         ELSE "NORMAL_DIRECTORY"
    ELSE "NORMAL_DIRECTORY"

\* The read of the magic with its result taken to be one item whatever was read.
ReadIdentificationUnchecked(f) == 1

\* fileLoader->ReadAt(0, 4, 1, &id): the number of whole 4-byte items read.
ReadIdentification(f) == IF f.size >= MagicLen THEN 1 ELSE 0

\* The 32-bit magic at offset 0, once read.
Magic(f) == IF f.head \in {"PPSSPPGE", "SYNC"} THEN "other" ELSE f.head

\* psar_id: read through the offset field at 0x24 when the magic is "\0PBP";
\* both start as 0, and a short read leaves them unchanged.
PsarId(f) ==
    IF Magic(f) = "PBP" /\ f.size >= PsarFieldEnd THEN f.psar ELSE "other"

\* The PS1 EBOOT check made first on a PBP: a valid container, not an ELF,
\* whose PARAM.SFO has CATEGORY "ME".
IsPs1Category(f) == f.pbpValid /\ ~f.pbpElf /\ f.category = "ME"

\* id == 'FLE\x7F'
IdentifyElf(filename, extension) ==
    IF extension = ".plf" \/ FilenameContainsBootBin(filename)
       \/ extension = ".elf" \/ extension = ".prx" \/ extension = ".pbp"
    THEN "PSP_ELF"
    ELSE "UNKNOWN_ELF"

\* The PBP rules with the PSAR markers looked at before the PS1 category.
IdentifyPbpPsarFirst(f, path) ==
    IF PsarId(f) = "NPUM" THEN "PSP_ISO_NP"
    ELSE IF PsarId(f) = "PSIS" THEN "PSP_PS1_PBP"
    ELSE IF IsPs1Category(f) THEN "PSP_PS1_PBP"
    ELSE IF FilePathContains(path) THEN "PSP_PBP_DIRECTORY"
    ELSE "PSP_PBP"

\* id == 'PBP\x00'
IdentifyPbp(f, path) ==
    IF IsPs1Category(f) THEN "PSP_PS1_PBP"
    ELSE IF PsarId(f) = "NPUM" THEN "PSP_ISO_NP"
    ELSE IF PsarId(f) = "PSIS" THEN "PSP_PS1_PBP"
    ELSE IF FilePathContains(path) THEN "PSP_PBP_DIRECTORY"
    ELSE "PSP_PBP"

\* The extension-only rules, tried when no magic rule matched.
IdentifyByExtension(extension) ==
    IF extension = ".pbp" THEN "PSP_PBP"
    ELSE IF extension = ".bin" THEN "UNKNOWN_BIN"
    ELSE IF extension = ".zip" THEN "ARCHIVE_ZIP"
    ELSE IF extension = ".rar" THEN "ARCHIVE_RAR"
    ELSE IF extension = ".r00" THEN "ARCHIVE_RAR"
    ELSE IF extension = ".r01" THEN "ARCHIVE_RAR"
    ELSE IF extension = ".7z" THEN "ARCHIVE_7Z"
    ELSE "UNKNOWN"

\* The rules on a regular file's bytes, from the 4-byte magic read on.
IdentifyContent(f, path, extension) ==
    IF ReadIdentification(f) # 1
    THEN Res("ERROR_IDENTIFYING", <<T("Failed to read identification bytes")>>)
    ELSE IF Magic(f) \in {"PK34", "PK56", "PK78"} THEN Res("ARCHIVE_ZIP", <<>>)
    ELSE IF Magic(f) = "Rar!" THEN Res("ARCHIVE_RAR", <<>>)
    ELSE IF Magic(f) = "ELF" THEN Res(IdentifyElf(path, extension), <<>>)
    ELSE IF Magic(f) = "PBP" THEN Res(IdentifyPbp(f, path), <<>>)
    ELSE Res(IdentifyByExtension(extension), <<>>)

\* The rules that look at the extension before anything else.
IdentifyExisting(w, path, e) ==
    LET extension == GetFileExtension(path) IN
    IF extension = ".iso" THEN IdentifyIso(e.file)
    ELSE IF extension = ".cso" THEN {Res("PSP_ISO", <<>>)}
    ELSE IF extension = ".ppst" THEN {Res("PPSSPP_SAVESTATE", <<>>)}
    ELSE IF extension = ".ppdmp" /\ IsGeDump(e.file) THEN {Res("PPSSPP_GE_DUMP", <<>>)}
    ELSE IF e.isDir THEN {Res(IdentifyDirectory(w, path), <<>>)}
    ELSE {IdentifyContent(e.file, path, extension)}

\* Identify_File(fileLoader, &errorString): the set of (type, errorString)
\* results the call can produce for the accessor of `path` (null: no accessor).
Identify_File(w, null, path) ==
    IF null THEN {Res("ERROR_IDENTIFYING", <<T("Invalid fileLoader")>>)}
    ELSE IF PathSize(path) = 0
    THEN {Res("ERROR_IDENTIFYING", <<T("Invalid filename "), path>>)}
    ELSE IF ~Stat(w, path).exists
    THEN {Res("ERROR_IDENTIFYING", <<T("IdentifyFile: File doesn't exist"), path>>)}
    ELSE IdentifyExisting(w, path, Stat(w, path))

\* ------------------------------------------------------------ path helpers

\* ResolvePBPDirectory without the step up from an EBOOT.PBP.
ResolvePBPDirectoryKeep(filename) == filename

\* ResolvePBPDirectory(filename)
ResolvePBPDirectory(filename) ==
    IF GetFilename(filename) = "EBOOT.PBP" THEN NavigateUp(filename) ELSE filename

\* ResolvePBPFile(filename)
ResolvePBPFile(filename) ==
    IF GetFilename(filename) # "EBOOT.PBP" THEN Child(filename, "EBOOT.PBP") ELSE filename

\* ------------------------------------------------------------ program state

VARIABLES
    world,              \* the artifact on disk that is offered to the program
    factories,          \* the factory registry: a set of [prefix, factory] entries
    headLess,           \* PSP_CoreParameter().headLess
    registered,         \* the RegisterFileLoaderFactory calls made so far, in order
    heap,               \* the accessor objects allocated so far: [path, alive, kind]
    fileLoader,         \* the caller's accessor pointer handed to LoadFile (0: nullptr)
    loadedFile,         \* the session's pending accessor, set by UpdateLoadedFile (0: none)
    discLoader,         \* the accessor the "disc0:" mount is bound to (0: no disc)
    memoryLoader,       \* the accessor the disc-backed memory mapping was set up from
    coreState,          \* the process-wide coarse execution state
    startingDirectory,  \* the virtual working directory
    last                \* what the last call was given and what it produced

vars ==
    <<world, factories, headLess, registered, heap, fileLoader, loadedFile, discLoader, memoryLoader, coreState,
      startingDirectory, last>>

NullLoader == 0

\* The state the operations read and write, threaded through one call; events
\* lists, in order, the calls made out of this file and the writes to coreState.
State(h, fl, lf, dl, ml, cs, sd) ==
    [heap |-> h, fileLoader |-> fl, loadedFile |-> lf, discLoader |-> dl,
     memoryLoader |-> ml, coreState |-> cs, startingDirectory |-> sd,
     events |-> <<>>]

Current ==
    State(heap, fileLoader, loadedFile, discLoader, memoryLoader, coreState,
          startingDirectory)

Ev(st, e) == [st EXCEPT !.events = Append(@, e)]

\* fileLoader->GetPath() of a live accessor.
LoaderPath(h, id) == IF id = NullLoader THEN EmptyPath ELSE h[id].path

\* The registry and the run mode, which no call in this file but
\* RegisterFileLoaderFactory changes.
Registry == <<factories, headLess, registered>>

\* ---------------------------------------------------------------- registry

\* Largest number of RegisterFileLoaderFactory calls in one behaviour.
MaxRegistrations == 2
\* Largest number of accessors constructed after the registrations.
MaxConstructed == 1

NoFactory == 0
Factories == {1, 2}

\* Strings, where their characters matter, are sequences of characters.
\* The characters of a path component.
NameChars(name) ==
    CASE name = "/" -> <<"/">>
      [] name = "m" -> <<"m">>
      [] name = "ms" -> <<"m", "s">>
      [] name = "a" -> <<"a">>
      [] name = "http://h" -> <<"h", "t", "t", "p", ":", "/", "/", "h">>

\* The character codes std::string compares by.
Code(c) ==
    CASE c = "/" -> 47 [] c = ":" -> 58 [] c = "a" -> 97 [] c = "h" -> 104
      [] c = "m" -> 109 [] c = "p" -> 112 [] c = "s" -> 115 [] c = "t" -> 116

\* operator< of std::string, the order std::map keeps its keys in.
StringLess(a, b) ==
    \E i \in 1..(Len(b)) :
        /\ i <= Len(a) + 1
        /\ \A j \in 1..(i - 1) : a[j] = b[j]
        /\ i <= Len(a) => Code(a[i]) < Code(b[i])

\* startsWith(str, what)
StartsWith(str, what) ==
    /\ Len(what) <= Len(str)
    /\ SubSeq(str, 1, Len(what)) = what

\* Path::ToString(): the components joined by "/" after the root.
RECURSIVE PathString(_)
PathString(p) ==
    IF Len(p) = 0 THEN <<>>
    ELSE IF Len(p) = 1 THEN NameChars(p[1])
    ELSE PathString(SubSeq(p, 1, Len(p) - 1))
         \o (IF Len(p) = 2 /\ p[1] = "/" THEN <<>> ELSE <<"/">>)
         \o NameChars(p[Len(p)])

HttpRoot == "http://h"

\* Path::Type()
PathType(p) == IF Len(p) > 0 /\ p[1] = HttpRoot THEN "HTTP" ELSE "NATIVE"

\* The prefixes factories are registered under: "", "/", "/m", "/ms", "h".
Prefixes == {<<>>, <<"/">>, <<"/", "m">>, <<"/", "m", "s">>, <<"h">>}

\* The paths accessors are constructed for in the registry's specification.
ConstructPaths ==
    {EmptyPath, <<"/", "a">>, <<"/", "m", "a">>, <<"/", "ms", "a">>,
     <<HttpRoot>>, <<HttpRoot, "a">>}

FactoryEntry(prefix, factory) == [prefix |-> prefix, factory |-> factory]

\* RegisterFileLoaderFactory(prefix, factory): factories[prefix] = factory
RegisterFileLoaderFactory(fs, prefix, factory) ==
    {e \in fs : e.prefix # prefix} \cup {FactoryEntry(prefix, factory)}

\* The keys of the map in the order its iteration visits them.
KeysInOrder(fs) ==
    LET keys == {e.prefix : e \in fs}
        n == Cardinality(keys)
    IN  CHOOSE ks \in [1..n -> keys] :
            \A i, j \in 1..n : i < j => StringLess(ks[i], ks[j])

\* The pipeline with the disk cache whatever the run mode.
HTTPPipelineAlwaysDiskCached(headless) ==
    <<"HTTPFileLoader", "RetryingFileLoader", "DiskCachingFileLoader", "CachingFileLoader">>

\* The decorators built for a network path, innermost first.
HTTPPipeline(headless) ==
    <<"HTTPFileLoader", "RetryingFileLoader">>
    \o (IF ~headless THEN <<"DiskCachingFileLoader">> ELSE <<>>)
    \o <<"CachingFileLoader">>

\* What ConstructFileLoader returns: the layers this file builds, innermost
\* first, or the factory the construction was delegated to; scanned lists the
\* registry keys the loop looked at.
Kind(layers, factory, scanned) ==
    [layers |-> layers, factory |-> factory, scanned |-> scanned]

\* The loop over the registry taken at the last match instead of the first.
FindFactoryLastMatch(fs, filename) ==
    LET ks == KeysInOrder(fs)
        hits == {i \in 1..Len(ks) : StartsWith(PathString(filename), ks[i])}
    IN  IF hits = {}
        THEN Kind(<<"LocalFileLoader">>, NoFactory, ks)
        ELSE LET i == CHOOSE h \in hits : \A g \in hits : g <= h
             IN  Kind(<<>>, (CHOOSE e \in fs : e.prefix = ks[i]).factory, ks)

\* for (auto &iter : factories) if (startsWith(...)) return iter.second->...;
\* return new LocalFileLoader(filename);
FindFactory(fs, filename) ==
    LET ks == KeysInOrder(fs)
        hits == {i \in 1..Len(ks) : StartsWith(PathString(filename), ks[i])}
    IN  IF hits = {}
        THEN Kind(<<"LocalFileLoader">>, NoFactory, ks)
        ELSE LET i == CHOOSE h \in hits : \A g \in hits : h <= g
             IN  Kind(<<>>, (CHOOSE e \in fs : e.prefix = ks[i]).factory,
                      SubSeq(ks, 1, i))

\* The accessor ConstructFileLoader(filename) builds.
LoaderKind(fs, headless, filename) ==
    IF PathType(filename) = "HTTP"
    THEN Kind(HTTPPipeline(headless), NoFactory, <<>>)
    ELSE FindFactory(fs, filename)

\* ------------------------------------------------------------------- heap

\* new ...FileLoader(filename): a fresh accessor object.
NewLoader(h, filename, kind) ==
    Append(h, [path |-> filename, alive |-> TRUE, kind |-> kind])

\* ConstructFileLoader(filename)
ConstructFileLoader(h, filename) ==
    NewLoader(h, filename, LoaderKind(factories, headLess, filename))

\* delete fileLoader
Delete(h, id) == [h EXCEPT ![id].alive = FALSE]

\* ResolveFileLoaderTarget that switches to the EBOOT without deleting the
\* accessor it was given.
ResolveFileLoaderTargetKeepOld(w, h, id) ==
    {IF r.type = "PSP_PBP_DIRECTORY"
        /\ ResolvePBPFile(LoaderPath(h, id)) # LoaderPath(h, id)
     THEN [heap |-> ConstructFileLoader(h, ResolvePBPFile(LoaderPath(h, id))),
           loader |-> Len(h) + 1]
     ELSE [heap |-> h, loader |-> id]
     : r \in Identify_File(w, id = NullLoader, LoaderPath(h, id))}

\* ResolveFileLoaderTarget(fileLoader): the heap and the accessor returned.
ResolveFileLoaderTarget(w, h, id) ==
    {IF r.type = "PSP_PBP_DIRECTORY"
        /\ ResolvePBPFile(LoaderPath(h, id)) # LoaderPath(h, id)
     THEN [heap |-> ConstructFileLoader(Delete(h, id), ResolvePBPFile(LoaderPath(h, id))),
           loader |-> Len(h) + 1]
     ELSE [heap |-> h, loader |-> id]
     : r \in Identify_File(w, id = NullLoader, LoaderPath(h, id))}

\* ------------------------------------------------------------------ LoadFile

DiscUserDirectory == <<"disc0:", "PSP_GAME", "USRDIR">>

\* A working directory that is never set.
SetStartingDirectorySkipped(st, dir) == st

\* pspFileSystem.SetStartingDirectory(dir)
SetStartingDirectory(st, dir) ==
    Ev([st EXCEPT !.startingDirectory = dir], "SetStartingDirectory")

\* coreState = CORE_BOOT_ERROR
SetBootError(st) ==
    Ev([st EXCEPT !.coreState = "CORE_BOOT_ERROR"], "coreState = CORE_BOOT_ERROR")

\* InitMemoryForGameISO(fileLoader): mounts the disc and sets up its mapping.
InitMemoryForGameISO(st) ==
    Ev([st EXCEPT !.discLoader = st.fileLoader, !.memoryLoader = st.fileLoader],
       "InitMemoryForGameISO")

Outcome(st, ret, error, type, routine, result) ==
    [st |-> st, ret |-> ret, error |-> error, type |-> type,
     routine |-> routine, result |-> result, crashed |-> FALSE]

\* return Load_...(fileLoader, error_string): the routine's result is returned
\* as it is.  What the routine does, to the error string and to the flag, is
\* outside this file and is not modelled.
Handoff(st, error, type, routine, result) ==
    Outcome(Ev(st, routine), result, error, type, routine, result)

\* An error return that leaves the flag as it is.
BootErrorFlagUnset(st, error, type) ==
    Outcome(st, FALSE, error, type, "none", FALSE)

\* An error return of LoadFile: the flag is set, then false is returned.
BootError(st, error, type) ==
    Outcome(SetBootError(st), FALSE, error, type, "none", FALSE)

\* The ERROR_IDENTIFYING message without the accessor's latest error.
IdentifyErrorMessageNoLatest(error, latest) ==
    IF error = <<>> THEN <<T("Error reading file")>> ELSE error

\* The ERROR_IDENTIFYING case: the message Identify_File wrote, ": ", and the
\* accessor's latest error; the generic text when that leaves nothing.
IdentifyErrorMessage(error, latest) ==
    IF error \o <<T(": ")>> \o latest = <<>>
    THEN <<T("Error reading file")>>
    ELSE error \o <<T(": ")>> \o latest

\* The messages of the cases that break out of the switch (the texts of a
\* build without WIN32; the archive texts name another tool with it).
FatalMessage(type, error, path, latest) ==
    CASE type = "PSP_PS1_PBP" -> <<T("PS1 EBOOTs are not supported by PPSSPP.")>>
      [] type = "ARCHIVE_RAR" -> <<T("RAR file detected (Require UnRAR)")>>
      [] type = "ARCHIVE_ZIP" -> <<T("ZIP file detected (Require UnRAR)")>>
      [] type = "ARCHIVE_7Z"  -> <<T("7z file detected (Require 7-Zip)")>>
      [] type = "ISO_MODE2"   -> <<T("PSX game image detected.")>>
      [] type = "NORMAL_DIRECTORY" -> <<T("Just a directory.")>>
      [] type = "PPSSPP_SAVESTATE" -> <<T("This is a saved state, not a game.")>>
      [] type = "PSP_SAVEDATA_DIRECTORY" -> <<T("This is save data, not a game.")>>
      [] type \in {"UNKNOWN_BIN", "UNKNOWN_ELF", "UNKNOWN"} ->
            <<T("Unknown file type: "), path>>
      [] type = "ERROR_IDENTIFYING" -> IdentifyErrorMessage(error, latest)
      [] OTHER -> <<T("Unhandled identified file type "), T(type)>>

\* The virtual directory derived from the EBOOT's directory, when that holds
\* "PSP/GAME/": "ms0:/" and the directory string from "PSP/GAME/" on.
MemstickDirectory(dir) ==
    LET pos == CHOOSE i \in 1..Len(dir) :
                   /\ i + 1 < Len(dir) /\ dir[i] = "PSP" /\ dir[i + 1] = "GAME"
                   /\ \A j \in 1..(i - 1) :
                         ~(j + 1 < Len(dir) /\ dir[j] = "PSP" /\ dir[j + 1] = "GAME")
        resolved == ResolvePBPDirectory(dir)
    IN  <<"ms0:">> \o SubSeq(resolved, pos, Len(resolved))

\* The tail of the PSP_PBP_DIRECTORY case once the EBOOT exists and has been
\* identified a second time.
DispatchEboot(st, eboot, type, path, result) ==
    IF eboot.type = "PSP_ISO_NP"
    THEN Handoff(SetStartingDirectory(InitMemoryForGameISO(st), DiscUserDirectory),
                 eboot.err, type, "Load_PSP_ISO", result)
    ELSE IF eboot.type = "PSP_PS1_PBP"
    THEN BootError(st, <<T("PS1 EBOOTs are not supported by PPSSPP.")>>, type)
    ELSE IF eboot.type = "ERROR_IDENTIFYING"
    THEN BootError(st, eboot.err, type)
    ELSE IF ContainsPspGame(NavigateUp(path))
    THEN Handoff(SetStartingDirectory(st, MemstickDirectory(NavigateUp(path))),
                 eboot.err, type, "Load_PSP_ELF_PBP", result)
    ELSE Handoff(st, eboot.err, type, "Load_PSP_ELF_PBP", result)

\* case PSP_PBP_DIRECTORY
DispatchPbpDirectory(w, st, id, result) ==
    UNION {
        LET st1 == Ev([st EXCEPT !.heap = t.heap, !.fileLoader = t.loader],
                      "ResolveFileLoaderTarget")
            path == LoaderPath(t.heap, t.loader)
        IN  IF Stat(w, path).exists
            THEN {DispatchEboot(Ev(st1, "Identify_File"), eboot, id.type, path, result) :
                    eboot \in Identify_File(w, FALSE, path)}
            ELSE {BootError(st1, <<T("No EBOOT.PBP, misidentified game")>>, id.type)}
        : t \in ResolveFileLoaderTarget(w, st.heap, st.fileLoader)}

\* The switch of LoadFile on the identified type.
Dispatch(w, st, id, latest, result) ==
    IF id.type = "PSP_PBP_DIRECTORY"
    THEN DispatchPbpDirectory(w, st, id, result)
    ELSE IF id.type \in {"PSP_PBP", "PSP_ELF"}
    THEN {Handoff(st, id.err, id.type, "Load_PSP_ELF_PBP", result)}
    ELSE IF id.type \in {"PSP_ISO", "PSP_ISO_NP", "PSP_DISC_DIRECTORY"}
    THEN {Handoff(SetStartingDirectory(st, DiscUserDirectory), id.err, id.type,
                  "Load_PSP_ISO", result)}
    ELSE IF id.type = "PPSSPP_GE_DUMP"
    THEN {Handoff(st, id.err, id.type, "Load_PSP_GE_Dump", result)}
    ELSE {BootError(st, FatalMessage(id.type, id.err,
                                     LoaderPath(st.heap, st.fileLoader), latest),
                    id.type)}

\* LoadFile(fileLoaderPtr, error_string): latest is the accessor's LatestError()
\* and result what the loading routine handed off to would return.
LoadFile(w, st, latest, result) ==
    UNION {Dispatch(w, Ev(st, "Identify_File"), id, latest, result) :
            id \in Identify_File(w, st.fileLoader = NullLoader,
                                 LoaderPath(st.heap, st.fileLoader))}

\* ---------------------------------------------------------------- UmdReplace

\* The lookup answered from the pending accessor instead of the mount.
CurrentUMDFromPending(st) == st.loadedFile

\* pspFileSystem.GetSystem("disc0:"): the disc mounted there, if any.
CurrentUMD(st) == st.discLoader

\* UpdateLoadedFile(loadedFile): registers the session's pending accessor.
UpdateLoadedFile(st, id) == Ev([st EXCEPT !.loadedFile = id], "UpdateLoadedFile")

\* ReInitMemoryForGameISO(loadedFile), succeeding: the disc mount and its
\* memory mapping now use the new accessor and the one they used is released.
ReInitMemoryForGameISO(st, id) ==
    Ev([st EXCEPT !.heap = Delete(st.heap, st.discLoader),
                  !.discLoader = id, !.memoryLoader = id],
       "ReInitMemoryForGameISO")

\* What a read through a dangling FileLoader pointer may deliver instead of
\* the object's path.
FreedMemory == <<"<freed>">>

Crash(st) ==
    [st |-> st, ret |-> FALSE, error |-> <<>>, type |-> "none",
     routine |-> "none", result |-> FALSE, crashed |-> TRUE]

\* if (!currentUMD) { error = "has no disc"; return false; }
NoDisc(st) == Outcome(st, FALSE, <<T("has no disc")>>, "none", "none", FALSE)

\* The replacement does not exist: the accessor is deleted and then asked for
\* its path, a use after free: the path may still be read, something else
\* may be read, or the process may die.
ReplaceMissing(st, id) ==
    LET st1 == Ev([st EXCEPT !.heap = Delete(st.heap, id)], "delete")
    IN  {Outcome(st1, FALSE, <<p, T(" doesn't exist")>>, "none", "none", FALSE) :
            p \in {LoaderPath(st.heap, id), FreedMemory}}
        \cup {Crash(st1)}

\* The unsupported-type return made the way LoadFile makes its error returns.
UnsupportedSettingFlag(st, id) ==
    Outcome(SetBootError(st), FALSE,
            <<T("Unsupported file type: "), T(id.type), T(" ")>> \o id.err,
            id.type, "none", FALSE)

\* default: error = "Unsupported file type: " + type + " " + errorString
Unsupported(st, id) ==
    Outcome(st, FALSE, <<T("Unsupported file type: "), T(id.type), T(" ")>> \o id.err,
            id.type, "none", FALSE)

\* The switch of UmdReplace on the identified type; reinitOk is what
\* ReInitMemoryForGameISO returns.
ReplaceIdentified(st, loader, id, reinitOk) ==
    IF id.type \in {"PSP_ISO", "PSP_ISO_NP", "PSP_DISC_DIRECTORY"}
    THEN IF reinitOk
         THEN Outcome(ReInitMemoryForGameISO(st, loader), TRUE, <<>>, id.type,
                      "none", FALSE)
         ELSE Outcome(Ev(st, "ReInitMemoryForGameISO"), FALSE,
                      <<T("reinit memory failed")>>, id.type, "none", FALSE)
    ELSE Unsupported(st, id)

\* From UpdateLoadedFile on: resolve, identify, switch.
ReplaceExisting(w, st, id, reinitOk) ==
    UNION {
        {ReplaceIdentified(Ev([st EXCEPT !.heap = t.heap], "ResolveFileLoaderTarget"),
                           t.loader, r, reinitOk) :
            r \in Identify_File(w, FALSE, LoaderPath(t.heap, t.loader))}
        : t \in ResolveFileLoaderTarget(w, st.heap, id)}

\* UmdReplace(filepath, error)
UmdReplace(w, st, filepath, reinitOk) ==
    IF CurrentUMD(st) = NullLoader
    THEN {NoDisc(st)}
    ELSE LET st1 == Ev([st EXCEPT !.heap = ConstructFileLoader(st.heap, filepath)],
                       "ConstructFileLoader")
             id == Len(st.heap) + 1
         IN  IF ~Stat(w, filepath).exists
             THEN ReplaceMissing(st1, id)
             ELSE ReplaceExisting(w, UpdateLoadedFile(st1, id), id, reinitOk)

\* ------------------------------------------------------------------ actions

NoWorld == World(EmptyPath, FALSE, FALSE, NoBytes, FALSE, FALSE, FALSE, NoBytes)

LatestErrors == {<<>>, <<T("Input/output error")>>}

NoCall ==
    [op |-> "none", null |-> FALSE, latest |-> <<>>, ret |-> FALSE, error |-> <<>>,
     type |-> "none", routine |-> "none", result |-> FALSE, crashed |-> FALSE,
     events |-> <<>>, file |-> EmptyPath, back |-> EmptyPath,
     firstType |-> "none", firstError |-> <<>>, loader |-> NullLoader,
     pre |-> State(<<>>, NullLoader, NullLoader, NullLoader, NullLoader, "none", <<>>)]

\* The state after a call that produced outcome o.
Apply(o) ==
    /\ heap' = o.st.heap
    /\ fileLoader' = o.st.fileLoader
    /\ loadedFile' = o.st.loadedFile
    /\ discLoader' = o.st.discLoader
    /\ memoryLoader' = o.st.memoryLoader
    /\ coreState' = o.st.coreState
    /\ startingDirectory' = o.st.startingDirectory

Called(op, null, o, latest) ==
    [NoCall EXCEPT !.op = op, !.null = null, !.latest = latest,
                   !.ret = o.ret, !.error = o.error, !.type = o.type,
                   !.routine = o.routine, !.result = o.result,
                   !.crashed = o.crashed, !.events = o.st.events, !.pre = Current]

Session ==
    <<heap, fileLoader, loadedFile, discLoader, memoryLoader, coreState,
      startingDirectory>>

\* Identify_File on the accessor of the offered path, or on no accessor.
IdentifyCall ==
    \E null \in BOOLEAN :
        \E r \in Identify_File(world, null, world.path) :
            /\ last' = [NoCall EXCEPT !.op = "Identify_File", !.null = null,
                                      !.type = r.type, !.error = r.err,
                                      !.pre = Current]
            /\ UNCHANGED <<world, Registry, Session>>

\* Identify_File a second time on the accessor a first call has identified;
\* nothing has modified the file in between.
IdentifyAgainCall ==
    /\ last.op = "Identify_File"
    /\ \E r \in Identify_File(world, last.null, world.path) :
            /\ last' = [last EXCEPT !.op = "Identify_File again",
                                    !.firstType = last.type,
                                    !.firstError = last.error,
                                    !.type = r.type, !.error = r.err]
            /\ UNCHANGED <<world, Registry, Session>>

\* The two path helpers applied in turn to the offered path.
ResolveCall ==
    /\ last' = [NoCall EXCEPT !.op = "ResolvePBP",
                              !.file = ResolvePBPFile(world.path),
                              !.back = ResolvePBPDirectory(ResolvePBPFile(world.path)),
                              !.pre = Current]
    /\ UNCHANGED <<world, Registry, Session>>

\* LoadFile, called once when the session boots.
LoadFileCall ==
    /\ last.op = "none"
    /\ \E latest \in LatestErrors, result \in BOOLEAN :
        \E o \in LoadFile(world, Current, latest, result) :
            /\ Apply(o)
            /\ last' = Called("LoadFile", fileLoader = NullLoader, o, latest)
    /\ UNCHANGED <<world, Registry>>

\* UmdReplace with the offered path, in a running session.
UmdReplaceCall ==
    /\ ~last.crashed
    /\ Len(heap) + 2 <= MaxLoaders
    /\ \E reinitOk \in BOOLEAN :
        \E o \in UmdReplace(world, Current, world.path, reinitOk) :
            /\ Apply(o)
            /\ last' = Called("UmdReplace", FALSE, o, <<>>)
    /\ UNCHANGED <<world, Registry>>

\* RegisterFileLoaderFactory called by a subsystem at startup.
RegisterCall ==
    /\ Len(registered) < MaxRegistrations
    /\ \E prefix \in Prefixes, factory \in Factories :
        /\ factories' = RegisterFileLoaderFactory(factories, prefix, factory)
        /\ registered' = Append(registered, FactoryEntry(prefix, factory))
        /\ last' = [NoCall EXCEPT !.op = "RegisterFileLoaderFactory", !.pre = Current]
    /\ UNCHANGED <<world, headLess, Session>>

\* ConstructFileLoader called with some path.
ConstructCall ==
    /\ Len(heap) < MaxConstructed
    /\ \E filename \in ConstructPaths :
        /\ heap' = ConstructFileLoader(heap, filename)
        /\ last' = [NoCall EXCEPT !.op = "ConstructFileLoader", !.file = filename,
                                  !.loader = Len(heap) + 1, !.pre = Current]
    /\ UNCHANGED <<world, Registry, fileLoader, loadedFile, discLoader, memoryLoader,
                   coreState, startingDirectory>>

\* ----------------------------------------------------------- specifications

\* No factory is registered and the run is interactive.
NoRegistry ==
    /\ factories = {}
    /\ headLess = FALSE
    /\ registered = <<>>

BootPath == <<"/", "boot.iso">>

\* Nothing has been constructed yet.
InitIdentify ==
    /\ world \in Worlds
    /\ NoRegistry
    /\ heap = <<>>
    /\ fileLoader = NullLoader
    /\ loadedFile = NullLoader
    /\ discLoader = NullLoader
    /\ memoryLoader = NullLoader
    /\ coreState = "CORE_POWERUP"
    /\ startingDirectory = <<>>
    /\ last = NoCall

NextIdentify == IdentifyCall \/ IdentifyAgainCall \/ ResolveCall

SpecIdentify == InitIdentify /\ [][NextIdentify]_vars

\* The caller has constructed the accessor of the offered path (or has none).
InitLoad ==
    /\ world \in Worlds
    /\ NoRegistry
    /\ heap = ConstructFileLoader(<<>>, world.path)
    /\ fileLoader \in (IF world = NoWorld THEN {NullLoader, 1} ELSE {1})
    /\ loadedFile = NullLoader
    /\ discLoader = NullLoader
    /\ memoryLoader = NullLoader
    /\ coreState = "CORE_POWERUP"
    /\ startingDirectory = <<>>
    /\ last = NoCall

NextLoad == LoadFileCall

SpecLoad == InitLoad /\ [][NextLoad]_vars

\* A running session: its booted accessor is the pending one, and a disc is
\* mounted from it or no disc is mounted.
InitUmd ==
    /\ world \in Worlds
    /\ NoRegistry
    /\ heap = ConstructFileLoader(<<>>, BootPath)
    /\ fileLoader = NullLoader
    /\ loadedFile = 1
    /\ discLoader \in {NullLoader, 1}
    /\ memoryLoader = discLoader
    /\ coreState = "CORE_RUNNING"
    /\ startingDirectory = DiscUserDirectory
    /\ last = NoCall

NextUmd == UmdReplaceCall

SpecUmd == InitUmd /\ [][NextUmd]_vars

\* Startup: subsystems register factories, then accessors are constructed.
InitConstruct ==
    /\ world = NoWorld
    /\ factories = {}
    /\ headLess \in BOOLEAN
    /\ registered = <<>>
    /\ heap = <<>>
    /\ fileLoader = NullLoader
    /\ loadedFile = NullLoader
    /\ discLoader = NullLoader
    /\ memoryLoader = NullLoader
    /\ coreState = "CORE_POWERUP"
    /\ startingDirectory = <<>>
    /\ last = NoCall

NextConstruct == RegisterCall \/ ConstructCall

SpecConstruct == InitConstruct /\ [][NextConstruct]_vars

Spec == SpecLoad

\* ------------------------------------------------------------------- claims

\* The accessors allocated during the last call.
Built == (Len(last.pre.heap) + 1)..Len(heap)

\* The last call was UmdReplace and it returned.
Replaced == last.op = "UmdReplace" /\ ~last.crashed

\* C1: UmdReplace is all-or-nothing.  After a call that returned true the disc
\* mount is bound to an accessor built by the call and the accessor it was
\* bound to is released; after a call that returned false the mount is bound
\* as before, every accessor the call built is released and none of them is
\* the session's pending accessor.
C1_AllOrNothing ==
    Replaced =>
        \/ /\ last.ret
           /\ discLoader \in Built
           /\ heap[discLoader].alive
           /\ ~heap[last.pre.discLoader].alive
        \/ /\ ~last.ret
           /\ discLoader = last.pre.discLoader
           /\ discLoader # NullLoader => heap[discLoader].alive
           /\ \A i \in Built : ~heap[i].alive
           /\ loadedFile \notin Built

\* The replacement path is missing while a disc is mounted.
MissingReplacement ==
    /\ last.op = "UmdReplace"
    /\ last.pre.discLoader # NullLoader
    /\ ~Stat(world, world.path).exists

\* C2: with a disc mounted and a replacement path that does not exist,
\* UmdReplace returns false with the message "<path> doesn't exist", has
\* released the accessor it built, never registered it, and the disc is still
\* mounted from its live accessor.
C2_MissingReplacement ==
    MissingReplacement =>
        /\ ~last.crashed
        /\ ~last.ret
        /\ last.error = <<world.path, T(" doesn't exist")>>
        /\ \A i \in Built : ~heap[i].alive
        /\ "UpdateLoadedFile" \notin {last.events[i] : i \in 1..Len(last.events)}
        /\ loadedFile = last.pre.loadedFile
        /\ discLoader = last.pre.discLoader
        /\ heap[discLoader].alive

\* C3: with no disc mounted, UmdReplace returns false with "has no disc" and
\* changes nothing: it builds no accessor, registers none, makes no call out
\* and leaves the mount, the memory mapping and the flag as they were.
C3_NoDisc ==
    (last.op = "UmdReplace" /\ last.pre.discLoader = NullLoader) =>
        /\ ~last.crashed
        /\ ~last.ret
        /\ last.error = <<T("has no disc")>>
        /\ last.events = <<>>
        /\ heap = last.pre.heap
        /\ loadedFile = last.pre.loadedFile
        /\ discLoader = last.pre.discLoader
        /\ memoryLoader = last.pre.memoryLoader
        /\ startingDirectory = last.pre.startingDirectory
        /\ coreState = last.pre.coreState

\* C3's case: UmdReplace was called with no disc mounted, for a replacement
\* that exists and would identify as a disc image.
C3_Witness ==
    /\ last.op = "UmdReplace"
    /\ last.pre.discLoader = NullLoader
    /\ world.exists
    /\ GetFileExtension(world.path) = ".cso"
    /\ last.error = <<T("has no disc")>>

\* The calls LoadFile made out of this file and its writes to the flag.
Events == {last.events[i] : i \in 1..Len(last.events)}

LoadingRoutines == {"Load_PSP_ELF_PBP", "Load_PSP_ISO", "Load_PSP_GE_Dump"}

\* C4: a LoadFile call that hands off to no loading routine writes the
\* boot-error marker to the flag as its last effect and returns false; a call
\* that hands off returns the routine's result and makes no write to the flag.
C4_FatalSetsFlag ==
    last.op = "LoadFile" =>
        IF last.routine = "none"
        THEN /\ ~last.ret
             /\ coreState = "CORE_BOOT_ERROR"
             /\ last.events[Len(last.events)] = "coreState = CORE_BOOT_ERROR"
             /\ Events \cap LoadingRoutines = {}
        ELSE /\ last.ret = last.result
             /\ last.events[Len(last.events)] = last.routine
             /\ "coreState = CORE_BOOT_ERROR" \notin Events
             /\ coreState = last.pre.coreState

\* C4's case: a fatal return from the PSP_PBP_DIRECTORY branch, after the
\* EBOOT.PBP failed to identify.
C4_Witness ==
    /\ last.op = "LoadFile"
    /\ last.type = "PSP_PBP_DIRECTORY"
    /\ last.error = <<T("Failed to read identification bytes")>>
    /\ ~last.ret
    /\ coreState = "CORE_BOOT_ERROR"

\* C5: a UmdReplace call that returns false leaves the flag as it was and
\* makes no write to it.
C5_FlagUntouched ==
    (Replaced /\ ~last.ret) =>
        /\ coreState = last.pre.coreState
        /\ "coreState = CORE_BOOT_ERROR" \notin Events

\* C5's case: UmdReplace returned false for an unsupported file type.
C5_Witness ==
    /\ Replaced
    /\ ~last.ret
    /\ last.type = "ARCHIVE_ZIP"
    /\ last.error[1] = T("Unsupported file type: ")
    /\ coreState = "CORE_RUNNING"

\* Identify_File was called on the accessor of an existing, empty ".bin" file.
ZeroByteBin ==
    /\ last.op = "Identify_File"
    /\ ~last.null
    /\ world.exists
    /\ ~world.isDir
    /\ world.file.size = 0
    /\ GetFileExtension(world.path) = ".bin"

\* C6 as stated: Identify_File on an existing zero-byte ".bin" file returns
\* UNKNOWN_BIN.
C6_ZeroByteBinUnknown == ZeroByteBin => last.type = "UNKNOWN_BIN"

\* C6, amended: Identify_File on an existing zero-byte ".bin" file returns
\* ERROR_IDENTIFYING with "Failed to read identification bytes"; the short
\* 4-byte read does not fall through to the extension rules.
C6_ZeroByteBinError ==
    ZeroByteBin =>
        /\ last.type = "ERROR_IDENTIFYING"
        /\ last.error = <<T("Failed to read identification bytes")>>

\* C6's case.
C6_Witness == ZeroByteBin /\ last.type = "ERROR_IDENTIFYING"

\* Identify_File was called on the accessor of an existing directory that has
\* a child EBOOT.PBP.
EbootDirectory ==
    /\ last.op = "Identify_File"
    /\ ~last.null
    /\ world.exists
    /\ world.isDir
    /\ world.hasEboot

\* C7 as stated: every existing directory with a child EBOOT.PBP identifies
\* as PSP_PBP_DIRECTORY.
C7_EbootDirectoryAlways == EbootDirectory => last.type = "PSP_PBP_DIRECTORY"

\* C7, amended: an existing directory with a child EBOOT.PBP identifies as
\* PSP_PBP_DIRECTORY, whatever other children it has, when its extension is
\* none of .iso, .cso, .ppst and its path string is longer than 4 characters.
C7_EbootDirectory ==
    (/\ EbootDirectory
     /\ GetFileExtension(world.path) \notin {".iso", ".cso", ".ppst"}
     /\ PathSize(world.path) > 4)
        => (last.type = "PSP_PBP_DIRECTORY" /\ last.error = <<>>)

\* C7's case: the directory also has PSP_GAME and PARAM.SFO children.
C7_Witness ==
    /\ EbootDirectory
    /\ world.hasPspGame
    /\ world.hasParamSfo
    /\ last.type = "PSP_PBP_DIRECTORY"

\* A valid container that is not an embedded executable and whose PARAM.SFO
\* has CATEGORY "ME".
IsPs1Container(f) ==
    f.head = "PBP" /\ f.size >= PsarFieldEnd /\ f.pbpValid /\ ~f.pbpElf
    /\ f.category = "ME"

\* LoadFile was given such a container as a loose file.
LoosePs1 ==
    /\ last.op = "LoadFile"
    /\ ~last.null
    /\ world.exists
    /\ ~world.isDir
    /\ IsPs1Container(world.file)

\* LoadFile was given a directory it identified as PSP_PBP_DIRECTORY whose
\* EBOOT.PBP is such a container.
DirectoryPs1 ==
    /\ last.op = "LoadFile"
    /\ ~last.null
    /\ world.exists
    /\ world.isDir
    /\ world.hasEboot
    /\ IsPs1Container(world.eboot)
    /\ last.type = "PSP_PBP_DIRECTORY"

\* LoadFile failed with the PS1 message, the flag set and no routine invoked.
Ps1Rejected ==
    /\ ~last.ret
    /\ last.error = <<T("PS1 EBOOTs are not supported by PPSSPP.")>>
    /\ coreState = "CORE_BOOT_ERROR"
    /\ last.routine = "none"
    /\ Events \cap LoadingRoutines = {}

\* C8 as stated: every "ME" container, loose or as the EBOOT.PBP of a
\* packaged-container directory, is rejected with the PS1 message, the flag
\* set and no loading routine invoked.
C8_Ps1AlwaysRejected == (LoosePs1 \/ DirectoryPs1) => Ps1Rejected

\* C8, amended: the same, for a loose file whose extension is none of .iso,
\* .cso, .ppst, and for a directory that is not itself named EBOOT.PBP.
C8_Ps1Rejected ==
    (\/ LoosePs1 /\ GetFileExtension(world.path) \notin {".iso", ".cso", ".ppst"}
     \/ DirectoryPs1 /\ GetFilename(world.path) # "EBOOT.PBP")
        => Ps1Rejected

\* C8's case: the directory form, with a PSAR marker that would otherwise
\* make the EBOOT a networked disc image.
C8_Witness ==
    /\ DirectoryPs1
    /\ world.eboot.psar = "NPUM"
    /\ Ps1Rejected

ResolvedDirectory ==
    /\ last.op = "ResolvePBP"
    /\ world.exists
    /\ world.isDir
    /\ Res("PSP_PBP_DIRECTORY", <<>>) \in Identify_File(world, FALSE, world.path)

\* C10 as stated: ResolvePBPDirectory(ResolvePBPFile(d)) = d for every such
\* directory d.
C10_RoundTripAlways == ResolvedDirectory => last.back = world.path

\* C10, amended: the round trip gives d back for every such directory d that
\* is not itself named EBOOT.PBP.
C10_RoundTrip ==
    (ResolvedDirectory /\ GetFilename(world.path) # "EBOOT.PBP") =>
        /\ last.file = Child(world.path, "EBOOT.PBP")
        /\ last.back = world.path

\* C10's case.
C10_Witness ==
    /\ ResolvedDirectory
    /\ GetFilename(world.path) # "EBOOT.PBP"
    /\ last.file # world.path
    /\ last.back = world.path

\* C12: an existing ".iso" accessor whose size is 2352 * k with k > 0 is
\* identified as ISO_MODE2 when its first 12 bytes are the raw-sector sync
\* pattern and as PSP_ISO for every other first 12 bytes; an existing ".iso"
\* accessor whose size is not a multiple of 2352 is always PSP_ISO.
IsoOffered ==
    /\ last.op = "Identify_File"
    /\ ~last.null
    /\ world.exists
    /\ GetFileExtension(world.path) = ".iso"

C12_IsoMode2 ==
    IsoOffered =>
        LET f == Stat(world, world.path).file IN
        /\ (f.size % SectorSize = 0 /\ f.size > 0) =>
                last.type = (IF f.head = "SYNC" THEN "ISO_MODE2" ELSE "PSP_ISO")
        /\ (f.size % SectorSize # 0) => last.type = "PSP_ISO"

C12_Witness ==
    /\ IsoOffered
    /\ Stat(world, world.path).file.size \in SectorSizes
    /\ Stat(world, world.path).file.head = "SYNC"
    /\ last.type = "ISO_MODE2"

\* C13: two Identify_File calls on the same unmodified accessor return the
\* same type and the same error string.
C13_Deterministic ==
    last.op = "Identify_File again" =>
        /\ last.type = last.firstType
        /\ last.error = last.firstError

\* LoadFile identified its input as PSP_PBP_DIRECTORY.
PbpDirectoryLoad == last.op = "LoadFile" /\ last.type = "PSP_PBP_DIRECTORY"

\* The caller's accessor was released and replaced by a live accessor for the
\* EBOOT.PBP inside the offered path.
SwitchedToEboot ==
    /\ fileLoader # last.pre.fileLoader
    /\ ~heap[last.pre.fileLoader].alive
    /\ heap[fileLoader].alive
    /\ LoaderPath(heap, fileLoader) = Child(world.path, "EBOOT.PBP")

\* The switch is made right after the first identification, before the
\* accessor is identified again by LoadFile.
SwitchedBeforeReidentification ==
    /\ Len(last.events) >= 2
    /\ last.events[1] = "Identify_File"
    /\ last.events[2] = "ResolveFileLoaderTarget"

\* A target that does not exist ends the call with the misidentified-game
\* error and no loading routine.
MissingTargetFails ==
    ~Stat(world, LoaderPath(heap, fileLoader)).exists =>
        /\ ~last.ret
        /\ last.error = <<T("No EBOOT.PBP, misidentified game")>>
        /\ coreState = "CORE_BOOT_ERROR"
        /\ last.routine = "none"
        /\ Events \cap LoadingRoutines = {}

\* C15 as stated: whenever LoadFile identifies its input as PSP_PBP_DIRECTORY
\* it replaces the caller's accessor with one for the contained EBOOT.PBP,
\* releasing the old one, before it identifies again; a target that does not
\* exist gives false, "No EBOOT.PBP, misidentified game", the boot-error flag
\* and no loading routine.
C15_AlwaysSwitched ==
    PbpDirectoryLoad =>
        /\ SwitchedToEboot
        /\ SwitchedBeforeReidentification
        /\ MissingTargetFails

\* C15, amended: the accessor is replaced when the offered path is not itself
\* named EBOOT.PBP, and is kept, alive, when it is; the rest as stated.
C15_SwitchedUnlessEboot ==
    PbpDirectoryLoad =>
        /\ IF GetFilename(world.path) # "EBOOT.PBP"
           THEN SwitchedToEboot
           ELSE /\ fileLoader = last.pre.fileLoader
                /\ heap[fileLoader].alive
                /\ Len(heap) = Len(last.pre.heap)
        /\ SwitchedBeforeReidentification
        /\ MissingTargetFails

C15_Witness ==
    /\ PbpDirectoryLoad
    /\ world.isDir
    /\ SwitchedToEboot
    /\ "Load_PSP_ELF_PBP" \in Events

\* The positions of last.events at which a loading routine is called.
RoutineCalls == {i \in 1..Len(last.events) : last.events[i] \in LoadingRoutines}

\* The type found when LoadFile identified the EBOOT of a PBP directory.
EbootTypes == {r.type : r \in Identify_File(world, FALSE, LoaderPath(heap, fileLoader))}

\* The call is one of those that load a disc image.
DiscLoad ==
    \/ last.type \in {"PSP_ISO", "PSP_ISO_NP", "PSP_DISC_DIRECTORY"}
    \/ /\ last.type = "PSP_PBP_DIRECTORY"
       /\ Stat(world, LoaderPath(heap, fileLoader)).exists
       /\ EbootTypes = {"PSP_ISO_NP"}

\* C16: a LoadFile call invokes at most one loading routine, as its last step
\* and after the identification; a call that loads a disc image sets the
\* working directory to disc0:/PSP_GAME/USRDIR and then calls Load_PSP_ISO and
\* no other routine.
C16_OneRoutine ==
    last.op = "LoadFile" =>
        /\ Cardinality(RoutineCalls) <= 1
        /\ \A i \in RoutineCalls :
              /\ i = Len(last.events)
              /\ \E j \in 1..(i - 1) : last.events[j] = "Identify_File"
              /\ last.events[i] = last.routine
        /\ DiscLoad =>
              /\ Len(last.events) >= 3
              /\ last.events[Len(last.events) - 1] = "SetStartingDirectory"
              /\ last.events[Len(last.events)] = "Load_PSP_ISO"
              /\ startingDirectory = DiscUserDirectory

C16_Witness ==
    /\ last.op = "LoadFile"
    /\ last.type = "PSP_PBP_DIRECTORY"
    /\ DiscLoad
    /\ last.events = <<"Identify_File", "ResolveFileLoaderTarget", "Identify_File",
                       "InitMemoryForGameISO", "SetStartingDirectory", "Load_PSP_ISO">>

\* The accessors the session refers to: the pending accessor, the disc mount
\* and its memory mapping.
SessionReferences == {loadedFile, discLoader, memoryLoader} \ {NullLoader}

\* The pieces of the last call's message.
ErrorPieces == {last.error[i] : i \in 1..Len(last.error)}

\* C17: when UmdReplace has returned, no accessor was used after its release
\* (the call neither died on one nor read its message from one), every
\* accessor the session refers to, the pending accessor registered through
\* UpdateLoadedFile among them, is live, and every live accessor is owned.
C17_NoUseAfterRelease ==
    last.op = "UmdReplace" =>
        /\ ~last.crashed
        /\ FreedMemory \notin ErrorPieces
        /\ \A id \in SessionReferences : heap[id].alive
        /\ \A id \in 1..Len(heap) : heap[id].alive => id \in SessionReferences

\* The last call was ConstructFileLoader; Constructed is what it returned.
ConstructedFor(type) ==
    /\ last.op = "ConstructFileLoader"
    /\ PathType(last.file) = type

Constructed == heap[last.loader]

\* The layers of the accessor returned.
Layers == Constructed.kind.layers

\* The registry entries whose prefix starts the string of the path.
Matching == {e \in factories : StartsWith(PathString(last.file), e.prefix)}

\* C11: for a network path ConstructFileLoader returns an accessor whose
\* layers are, innermost first, the network accessor, the retry layer, the
\* disk cache exactly when the run is not headless, and the memory cache
\* outermost; the registry is not looked at, whatever is registered.
C11_NetworkPipeline ==
    ConstructedFor("HTTP") =>
        /\ last.loader # NullLoader
        /\ Constructed.alive
        /\ Constructed.path = last.file
        /\ Len(Layers) = (IF headLess THEN 3 ELSE 4)
        /\ Layers[1] = "HTTPFileLoader"
        /\ Layers[2] = "RetryingFileLoader"
        /\ ~headLess => Layers[3] = "DiskCachingFileLoader"
        /\ headLess => \A i \in 1..Len(Layers) : Layers[i] # "DiskCachingFileLoader"
        /\ Layers[Len(Layers)] = "CachingFileLoader"
        /\ Constructed.kind.factory = NoFactory
        /\ Constructed.kind.scanned = <<>>

C11_Witness ==
    /\ ConstructedFor("HTTP")
    /\ ~headLess
    /\ Matching # {}
    /\ Len(Layers) = 4

\* The entry of the last RegisterFileLoaderFactory call made for each prefix.
LatestRegistered ==
    {registered[i] : i \in {j \in 1..Len(registered) :
                              \A k \in (j + 1)..Len(registered) :
                                  registered[k].prefix # registered[j].prefix}}

\* C14: the registry holds one factory per prefix, the one registered last;
\* for a path that is not a network path ConstructFileLoader delegates to the
\* factory of the least key, in string order, that starts the path's string,
\* and returns a plain local accessor when no key does; it returns an accessor
\* in every case.
C14_FirstMatchingFactory ==
    /\ \A e1, e2 \in factories : e1.prefix = e2.prefix => e1 = e2
    /\ factories = LatestRegistered
    /\ ConstructedFor("NATIVE") =>
          /\ last.loader # NullLoader
          /\ Constructed.alive
          /\ Constructed.path = last.file
          /\ IF Matching = {}
             THEN /\ Layers = <<"LocalFileLoader">>
                  /\ Constructed.kind.factory = NoFactory
             ELSE \E e \in Matching :
                    /\ \A e2 \in Matching :
                          e2.prefix = e.prefix \/ StringLess(e.prefix, e2.prefix)
                    /\ Constructed.kind.factory = e.factory
                    /\ Layers = <<>>

C14_Witness ==
    /\ ConstructedFor("NATIVE")
    /\ \E e1, e2 \in Matching :
          /\ StringLess(e1.prefix, e2.prefix)
          /\ e1.factory # e2.factory
          /\ Constructed.kind.factory = e1.factory

====
